---------------------------- MODULE Spec2Model ----------------------------
(***************************************************************************)
(* AlphaBot backend (src/main.py): the OAuth callback route, the daily     *)
(* scheduler route and the tweet generator, as a state machine.            *)
(*                                                                         *)
(* Every request handler is a coroutine on one event loop: it runs without *)
(* interruption from one `await` that suspends to the next, so each action *)
(* below is one such segment of a handler.  Calls to the store (supabase)  *)
(* and to tweepy are synchronous and belong to the segment they occur in.  *)
(* Time is counted in hours.                                               *)
(***************************************************************************)
EXTENDS Integers, Sequences, FiniteSets, TLC

VARIABLES
    clock,      \* datetime.utcnow(), in hours
    users,      \* the rows of the store's table "users"
    cb,         \* the callback request in flight (auth_callback)
    cron,       \* the scheduler invocations in flight (daily_cron), per slot
    text,       \* resp.text of the AI model, for generate_tweet
    tweet,      \* what generate_tweet returned for text
    hist        \* history of the publish attempts made (no program state)

vars == <<clock, users, cb, cron, text, tweet, hist>>

-----------------------------------------------------------------------------
(* Bounds of the model *)

MaxInstant == 2         \* the clock is read at instants 0..MaxInstant
MaxTokens == 1          \* token pairs the provider can issue
MaxPad == 272           \* longest run of one character in a generated text
MaxEdge == 3            \* longest enumerated edge of a generated text
MaxCrons == 2           \* invocations started where two may overlap

(* Program constants *)

CallbackDelayHours == 1     \* timedelta(hours=1)
RescheduleHours == 24       \* timedelta(days=1)
TweetCap == 270             \* tweet[:270]

Ids == {"u1", "u2"}         \* provider user ids
Slots == {"A"}              \* scheduler invocations in flight at once
OverlapSlots == {"A", "B"}  \* the same, where invocations overlap
\* the instants at which the clock is read: hours 0 and 1 of each day
Instant(k) == RescheduleHours * (k \div 2) + (k % 2)
Times == {Instant(k) : k \in 0..MaxInstant}
None == "<None>"            \* Python's None (a query parameter left out)
Codes == {None, "", "c1"}   \* the `code` query parameter

-----------------------------------------------------------------------------
(* datetime: a naive or aware point in time.  isoformat() of a naive       *)
(* datetime carries no offset; fromisoformat() yields an aware datetime    *)
(* exactly when the string carries one.                                    *)

UtcNow == [t |-> clock, aware |-> FALSE]

Plus(dt, hours) == [dt EXCEPT !.t = @ + hours]

IsoFormat(dt) == [t |-> dt.t, offset |-> IF dt.aware THEN "+00:00" ELSE ""]

ReplaceZ(s) == [s EXCEPT !.offset = IF @ = "Z" THEN "+00:00" ELSE @]

FromIsoFormat(s) == [t |-> s.t, aware |-> s.offset # ""]

\* now >= next_post; comparing a naive with an aware datetime raises TypeError
Comparable(a, b) == a.aware = b.aware

IsDueMutant(now, user) == TRUE
IsDue(now, user) == now.t >= FromIsoFormat(ReplaceZ(user.next_post_at)).t

-----------------------------------------------------------------------------
(* The store: table "users", primary key x_id *)

AccessToken(n) == <<"access", n>>
RefreshToken(n) == <<"refresh", n>>
Handle(id) == <<"handle", id>>

Row(id, n, npa, act) ==
    [x_id |-> id, username |-> Handle(id), access_token |-> AccessToken(n),
     refresh_token |-> RefreshToken(n), next_post_at |-> npa, active |-> act]

\* supabase.table("users").upsert(db_data): insert, or replace the row with
\* the same primary key
UpsertMutant(table, row) == table \cup {row}
Upsert(table, row) == {r \in table : r.x_id # row.x_id} \cup {row}

\* supabase.table("users").update({"next_post_at": v}).eq("x_id", id)
UpdateWholeRow(table, id, v) ==
    {IF r.x_id = id THEN Row(id, 0, v, TRUE) ELSE r : r \in table}
Update(table, id, v) ==
    {IF r.x_id = id THEN [r EXCEPT !.next_post_at = v] ELSE r : r \in table}

\* supabase.table("users").select("*").eq("active", True)
SelectAll(table) == table
SelectActive(table) == {r \in table : r.active}

\* the orders in which the store can return a set of rows
Orders(S) ==
    {s \in [1..Cardinality(S) -> S] : \A i, j \in DOMAIN s : i # j => s[i] # s[j]}

RowsOf(id) == {r \in users : r.x_id = id}

-----------------------------------------------------------------------------
(* start_auth: GET /api/auth/x/start (lines 46-56) returns the authorization *)
(* URL built from the configuration and touches nothing                      *)

StartAuth == UNCHANGED vars

-----------------------------------------------------------------------------
(* A handler that has returned or raised is at "done" with its response;   *)
(* the response is sent at once, before any other handler resumes.         *)

Quiet == cb.pc # "done" /\ \A c \in DOMAIN cron : cron[c].pc # "done"

-----------------------------------------------------------------------------
(* auth_callback: GET /api/auth/x/callback *)

\* The request: where the handler stands, its local variables (code, tok for
\* the token pair, uid for x_id), its response (status, location), and a
\* record of what it has done: the requests sent, the statuses received, the
\* upsert calls made, what the upsert did and whether a row of uid existed.
CbIdle ==
    [pc |-> "idle", code |-> None, tok |-> 0, uid |-> "", status |-> 0,
     location |-> <<>>, sent |-> {}, token_status |-> 0, user_status |-> 0,
     upserts |-> 0, outcome |-> "", existed |-> FALSE]

\* an HTTP error or an uncaught exception ends the request
CbFail(req, st) == [req EXCEPT !.pc = "done", !.status = st]

\* code[:20] (line 60) raises TypeError on None
Subscriptable(code) == code # None

\* `not code` (line 62)
Falsy(code) == code = None \/ code = ""

\* lines 59-79: up to the await of the token request
CallbackStart(code) ==
    /\ Quiet /\ cb.pc = "idle"
    /\ LET req == [CbIdle EXCEPT !.code = code] IN
       cb' = IF ~Subscriptable(code) THEN CbFail(req, 500)
             ELSE IF Falsy(code) THEN CbFail(req, 400)
             ELSE [req EXCEPT !.pc = "token", !.sent = {"token"}]
    /\ UNCHANGED <<clock, users, cron, text, tweet>>

\* resp.status_code != 200 (line 82)
TokenRefusedMutant(status) == FALSE
TokenRefused(status) == status # 200

\* user_resp.status_code != 200 (line 97)
UserRefused(status) == status # 200

\* lines 79-94: the token response, up to the await of the user-info request
CallbackToken ==
    /\ Quiet /\ cb.pc = "token"
    /\ \/ \E status \in {200, 400} : \E n \in 1..MaxTokens :
            LET req == [cb EXCEPT !.token_status = status] IN
            cb' = IF TokenRefused(status) THEN CbFail(req, 400)
                  ELSE [req EXCEPT !.pc = "me", !.tok = n,
                                   !.sent = @ \cup {"me"}]
       \/ cb' = CbFail(cb, 500)     \* the request raises (transport error)
    /\ UNCHANGED <<clock, users, cron, text, tweet>>

\* db_data (lines 107-114)
DbDataMutant(id, n) ==
    Row(id, n, IsoFormat(Plus(UtcNow, RescheduleHours)), TRUE)
DbDataInactive(id, n) ==
    Row(id, n, IsoFormat(Plus(UtcNow, CallbackDelayHours)), FALSE)
DbData(id, n) == Row(id, n, IsoFormat(Plus(UtcNow, CallbackDelayHours)), TRUE)

\* the upsert neither raised nor returned no data (lines 118-128): the
\* HTTPException(500) raised on no data is itself caught by `except Exception`
\* and raised again as HTTPException(500)
SavedMutant(outcome) == outcome # "raise"
Saved(outcome) == outcome = "data"

\* lines 94-128: the user-info response and the upsert.  The store may or may
\* not have applied an upsert that returns no data.
CallbackUser ==
    /\ Quiet /\ cb.pc = "me"
    /\ \/ \E status \in {200, 401} : \E id \in Ids :
          \E outcome \in {"data", "nodata", "raise"} : \E applied \in BOOLEAN :
            IF UserRefused(status)
            THEN /\ cb' = CbFail([cb EXCEPT !.user_status = status], 400)
                 /\ users' = users
            ELSE LET req == [cb EXCEPT !.user_status = status, !.uid = id,
                                       !.upserts = @ + 1, !.outcome = outcome,
                                       !.existed = RowsOf(id) # {}]
                 IN  /\ users' = IF outcome = "data" \/ (outcome = "nodata" /\ applied)
                                 THEN Upsert(users, DbData(id, cb.tok))
                                 ELSE users
                     /\ cb' = IF Saved(outcome)
                              THEN [req EXCEPT !.pc = "closing"]
                              ELSE CbFail(req, 500)
       \/ cb' = CbFail(cb, 500) /\ users' = users   \* the request raises
    /\ UNCHANGED <<clock, cron, text, tweet>>

\* lines 129-133: the client is closed, the redirect is returned
CallbackRedirect ==
    /\ Quiet /\ cb.pc = "closing"
    /\ cb' = [cb EXCEPT !.pc = "done", !.status = 302,
                        !.location = <<"activated", Handle(cb.uid)>>]
    /\ UNCHANGED <<clock, users, cron, text, tweet>>

\* the response is sent
CallbackReturn ==
    /\ cb.pc = "done"
    /\ cb' = CbIdle
    /\ UNCHANGED <<clock, users, cron, text, tweet>>

-----------------------------------------------------------------------------
(* daily_cron: GET /cron/daily, with post_for_user and its await of        *)
(* generate_tweet.  The store's select and update are taken to succeed.    *)

CronIdle ==
    [pc |-> "idle", now |-> [t |-> 0, aware |-> FALSE], list |-> <<>>, i |-> 0,
     log |-> <<>>, status |-> 0, processed |-> -1]

\* len(users) (line 167)
ProcessedMutant(inv) ==
    Cardinality({j \in DOMAIN inv.list : IsDue(inv.now, inv.list[j])})
Processed(inv) == Len(inv.list)

\* the `for` loop (lines 159-167) from position j to the next await: the
\* generation for the next due user is dispatched, or the loop ends and the
\* result is returned
RECURSIVE Scan(_, _)
ScanAllAtOnce(inv, j) ==
    IF j > Len(inv.list)
    THEN [inv EXCEPT !.pc = "done", !.status = 200, !.i = j,
                     !.processed = Processed(inv)]
    ELSE IF IsDue(inv.now, inv.list[j])
    THEN [inv EXCEPT !.pc = "gen", !.i = j,
                     !.log = Append(@, <<"generate", inv.list[j].x_id>>)
                             \o SelectSeq(Scan(inv, j + 1).log,
                                          LAMBDA e : e[1] = "generate")]
    ELSE Scan(inv, j + 1)
Scan(inv, j) ==
    IF j > Len(inv.list)
    THEN [inv EXCEPT !.pc = "done", !.status = 200, !.i = j,
                     !.processed = Processed(inv)]
    ELSE IF ~Comparable(inv.now, FromIsoFormat(ReplaceZ(inv.list[j].next_post_at)))
    THEN [inv EXCEPT !.pc = "done", !.status = 500, !.i = j]
    ELSE IF IsDue(inv.now, inv.list[j])
    THEN [inv EXCEPT !.pc = "gen", !.i = j,
                     !.log = Append(@, <<"generate", inv.list[j].x_id>>)]
    ELSE Scan(inv, j + 1)

\* lines 156-162: now, the select, and the loop up to the first generation
CronStart(c) ==
    /\ Quiet /\ cron[c].pc = "idle"
    /\ \E list \in Orders(SelectActive(users)) :
         cron' = [cron EXCEPT ![c] =
                    Scan([CronIdle EXCEPT !.now = UtcNow, !.list = list], 1)]
    /\ UNCHANGED <<clock, users, cb, text, tweet>>

\* new_next (line 164)
NewNextHourly(now) == IsoFormat(Plus(now, CallbackDelayHours))
NewNext(now) == IsoFormat(Plus(now, RescheduleHours))

\* lines 138-152 and 162-167: the generation ends; on a text, create_tweet is
\* called (its exception is caught), the user is rescheduled and the loop
\* goes on; an exception of the generation is caught nowhere
CronGenerated(c) ==
    /\ Quiet /\ cron[c].pc = "gen"
    /\ LET inv == cron[c]
           id == inv.list[inv.i].x_id
       IN  \/ /\ cron' = [cron EXCEPT ![c] =
                    [inv EXCEPT !.pc = "done", !.status = 500,
                                !.log = Append(@, <<"generate_raised", id>>)]]
              /\ users' = users
           \/ \E posted \in BOOLEAN :
              /\ users' = Update(users, id, NewNext(inv.now))
              /\ cron' = [cron EXCEPT ![c] =
                    Scan([inv EXCEPT !.log = @ \o
                            << <<IF posted THEN "posted" ELSE "post_raised", id>>,
                               <<"update", id>> >>],
                         inv.i + 1)]
    /\ UNCHANGED <<clock, cb, text, tweet>>

\* the response is sent
CronReturn(c) ==
    /\ cron[c].pc = "done"
    /\ cron' = [cron EXCEPT ![c] = CronIdle]
    /\ UNCHANGED <<clock, users, cb, text, tweet>>

-----------------------------------------------------------------------------

\* generate_tweet has not been called
NotReturned == [returned |-> FALSE, value |-> <<>>]

\* time passes
Tick ==
    /\ Quiet
    /\ \E t \in Times : t > clock /\ clock' = t
    /\ UNCHANGED <<users, cb, cron, text, tweet>>

\* the tables the process can find at start: at most one row per x_id, with
\* tokens issued earlier (pair 0)
InitRows == {Row(id, 0, IsoFormat([t |-> 0, aware |-> FALSE]), act) :
                id \in Ids, act \in BOOLEAN}
InitTables ==
    {T \in SUBSET InitRows : \A r, q \in T : r.x_id = q.x_id => r = q}

\* no attempt made yet: `started` counts the invocations, `by` numbers the
\* invocation of each slot, `overlapped` tells whether an invocation has read
\* its list before another had returned, and `posts` holds the publish
\* attempts made
NoHist == [started |-> 0, by |-> [c \in OverlapSlots |-> 0],
           overlapped |-> FALSE, posts |-> {}]

Init ==
    /\ clock = 0
    /\ users \in InitTables
    /\ cb = CbIdle
    /\ cron = [c \in Slots |-> CronIdle]
    /\ text = <<>>
    /\ tweet = NotReturned
    /\ hist = NoHist

Next ==
    \/ StartAuth
    \/ \E code \in Codes : CallbackStart(code) /\ UNCHANGED hist
    \/ CallbackToken /\ UNCHANGED hist
    \/ CallbackUser /\ UNCHANGED hist
    \/ CallbackRedirect /\ UNCHANGED hist
    \/ CallbackReturn /\ UNCHANGED hist
    \/ \E c \in Slots : CronStart(c) /\ UNCHANGED hist
    \/ \E c \in Slots : CronGenerated(c) /\ UNCHANGED hist
    \/ \E c \in Slots : CronReturn(c) /\ UNCHANGED hist
    \/ Tick /\ UNCHANGED hist

Spec == Init /\ [][Next]_vars

-----------------------------------------------------------------------------
(* generate_tweet (lines 135-140) on the text the AI model returned: a     *)
(* string is a sequence of characters                                      *)

Backtick == "backtick"      \* the character U+0060
Fence == <<Backtick, Backtick, Backtick>>
EdgeChars == {Backtick, " "}
IsSpace(ch) == ch = " "

RECURSIVE LStrip(_)
LStrip(s) == IF s # <<>> /\ IsSpace(Head(s)) THEN LStrip(Tail(s)) ELSE s

RECURSIVE RStrip(_)
RStrip(s) ==
    IF s # <<>> /\ IsSpace(s[Len(s)]) THEN RStrip(SubSeq(s, 1, Len(s) - 1)) ELSE s

\* str.strip()
Strip(s) == RStrip(LStrip(s))

\* p occurs in s at place i
OccursAt(s, p, i) == i + Len(p) - 1 <= Len(s) /\ SubSeq(s, i, i + Len(p) - 1) = p

Contains(s, p) == \E i \in 1..Len(s) : OccursAt(s, p, i)

\* str.find(p): the first place where p occurs, 0 for none
Find(s, p) ==
    IF ~Contains(s, p) THEN 0
    ELSE CHOOSE i \in 1..Len(s) :
            OccursAt(s, p, i) /\ \A j \in 1..(i - 1) : ~OccursAt(s, p, j)

\* str.replace(old, ""): the leftmost occurrence is cut out and the search goes
\* on after it, so the occurrences removed do not overlap
RECURSIVE Remove(_, _)
Remove(s, old) ==
    LET i == Find(s, old) IN
    IF i = 0 THEN s
    ELSE SubSeq(s, 1, i - 1) \o Remove(SubSeq(s, i + Len(old), Len(s)), old)

\* s[:n]
Slice(s, n) == SubSeq(s, 1, IF Len(s) < n THEN Len(s) ELSE n)


\* resp.text.strip().replace(fence, "") and tweet[:270]
FormatTweetMutant(t) == Slice(Strip(t), TweetCap)
FormatTweet(t) == Slice(Remove(Strip(t), Fence), TweetCap)

\* the texts tried: two edges of backticks and spaces around a run of one
\* character, the run short or about as long as the cap
Edges == UNION {[1..n -> EdgeChars] : n \in 0..MaxEdge}
Fill(ch, k) == [i \in 1..k |-> ch]
PadLens == {k \in 0..MaxPad : k <= 1 \/ k >= TweetCap - MaxEdge - 1}
Texts == {l \o Fill(ch, k) \o r : l \in Edges, r \in Edges, ch \in {Backtick, "a"},
                                  k \in PadLens}

GenerateTweet ==
    /\ ~tweet.returned
    /\ tweet' = [returned |-> TRUE, value |-> FormatTweet(text)]
    /\ UNCHANGED <<clock, users, cb, cron, text>>

InitGenerate ==
    /\ clock = 0
    /\ users = {}
    /\ cb = CbIdle
    /\ cron = [c \in Slots |-> CronIdle]
    /\ text \in Texts
    /\ tweet = NotReturned
    /\ hist = NoHist

NextGenerate == GenerateTweet /\ UNCHANGED hist

SpecGenerate == InitGenerate /\ [][NextGenerate]_vars

-----------------------------------------------------------------------------
(* The scheduler route again, with two invocations that overlap at the     *)
(* await of line 145 and the history of the publish attempts kept.          *)

\* what a step of invocation c added to its calls after the generation's
\* entry: the publish attempt (line 148), or the generation's exception
Added(c) == cron'[c].log[Len(cron[c].log) + 1]

OverlapStart(c) ==
    /\ hist.started < MaxCrons
    /\ CronStart(c)
    /\ hist' = [hist EXCEPT
                    !.started = @ + 1, !.by[c] = hist.started + 1,
                    !.overlapped = @ \/ \E d \in DOMAIN cron : cron[d].pc # "idle"]

\* an attempt is kept with its user, the due time the invocation read for
\* the user, the invocation's time and number and whether create_tweet
\* raised
OverlapGenerated(c) ==
    /\ CronGenerated(c)
    /\ hist' = IF Added(c)[1] \in {"posted", "post_raised"}
               THEN [hist EXCEPT !.posts = @ \cup
                        {[id |-> Added(c)[2],
                          due |-> FromIsoFormat(ReplaceZ(
                                    cron[c].list[cron[c].i].next_post_at)).t,
                          at |-> cron[c].now.t,
                          raised |-> Added(c)[1] = "post_raised",
                          by |-> hist.by[c]]}]
               ELSE hist

InitOverlap ==
    /\ clock = 0
    /\ users \in InitTables
    /\ cb = CbIdle
    /\ cron = [c \in OverlapSlots |-> CronIdle]
    /\ text = <<>>
    /\ tweet = NotReturned
    /\ hist = NoHist

NextOverlap ==
    \/ \E c \in OverlapSlots : OverlapStart(c)
    \/ \E c \in OverlapSlots : OverlapGenerated(c)
    \/ \E c \in OverlapSlots : CronReturn(c) /\ UNCHANGED hist
    \/ Tick /\ UNCHANGED hist

SpecOverlap == InitOverlap /\ [][NextOverlap]_vars

-----------------------------------------------------------------------------
(* Properties *)

RowsIn(table, id) == {r \in table : r.x_id = id}
Has(log, e) == \E k \in DOMAIN log : log[k] = e
Mentions(log, id) == \E k \in DOMAIN log : log[k][2] = id
Refused(status) == status \notin {0, 200}
Finished(c) == cron[c].pc = "done"

(* C1: a callback whose code is missing (None) or empty is answered 400,    *)
(* sends no token request and writes nothing to the store.                  *)
C1_MissingCodeIs400 ==
    cb.pc = "done" /\ cb.code \in {None, ""} =>
        cb.status = 400 /\ cb.sent = {} /\ cb.upserts = 0

(* C2: when an invocation of the scheduler has ended, every user of its     *)
(* list who was due has been rescheduled to now + 24 hours, whether the     *)
(* publish call succeeded or raised, the invocation has returned ok and its *)
(* processed count covers the list.                                         *)
C2_DueUserRescheduled ==
    \A c \in DOMAIN cron : Finished(c) =>
        \A j \in DOMAIN cron[c].list :
            LET u == cron[c].list[j] IN
            u.next_post_at.t <= cron[c].now.t =>
                /\ cron[c].status = 200
                /\ cron[c].processed = Len(cron[c].list)
                /\ Has(cron[c].log, <<"update", u.x_id>>)
                /\ \A r \in RowsOf(u.x_id) :
                      r.next_post_at.t = cron[c].now.t + RescheduleHours

(* C3: when the generation has raised for a user, the invocation still      *)
(* reschedules that user, goes through the rest of its list and returns ok. *)
C3_GenerationFailureHandled ==
    \A c \in DOMAIN cron : Finished(c) =>
        \A k \in DOMAIN cron[c].log :
            cron[c].log[k][1] = "generate_raised" =>
                /\ cron[c].status = 200
                /\ Has(cron[c].log, <<"update", cron[c].log[k][2]>>)
                /\ cron[c].i > Len(cron[c].list)

(* C4: no step of a scheduler invocation generates, publishes or writes for *)
(* a user of its list whose next_post_at is later than its now: the rows of *)
(* that user are the same after the step.                                   *)
C4_FutureUserUntouched ==
    [][\A c \in DOMAIN cron : cron'[c] # cron[c] =>
        \A j \in DOMAIN cron'[c].list :
            LET u == cron'[c].list[j] IN
            u.next_post_at.t > cron'[c].now.t =>
                /\ ~Mentions(cron'[c].log, u.x_id)
                /\ RowsIn(users', u.x_id) = RowsIn(users, u.x_id)]_vars

C4_Witness ==
    \E c \in DOMAIN cron :
        /\ Finished(c) /\ cron[c].status = 200
        /\ \E j, k \in DOMAIN cron[c].list :
              /\ cron[c].list[j].next_post_at.t > cron[c].now.t
              /\ RowsOf(cron[c].list[j].x_id) = {cron[c].list[j]}
              /\ Has(cron[c].log, <<"update", cron[c].list[k].x_id>>)

(* C5: the store never holds two rows with the same x_id, and when a        *)
(* callback has succeeded the store holds exactly one row whose x_id is the *)
(* id the user-info endpoint reported, also when a row of that id existed.  *)
C5_OneRecordPerId ==
    /\ \A r, q \in users : r.x_id = q.x_id => r = q
    /\ cb.pc \in {"closing", "done"} /\ Saved(cb.outcome) =>
          Cardinality(RowsOf(cb.uid)) = 1

C5_Witness ==
    /\ cb.pc = "done" /\ cb.status = 302 /\ cb.existed
    /\ Cardinality(users) = Cardinality(Ids)

(* C6: what generate_tweet returns is at most 270 characters long and       *)
(* holds no code fence.                                                     *)
C6_TweetShortAndFenceless ==
    tweet.returned =>
        Len(tweet.value) <= TweetCap /\ ~Contains(tweet.value, Fence)

C6_Witness ==
    /\ tweet.returned /\ Len(tweet.value) = TweetCap
    /\ Contains(text, Fence) /\ Len(text) > TweetCap + Len(Fence)

(* C7: a callback that got a status other than 200 from the token endpoint  *)
(* ends 400 having sent no user-info request and called no upsert; one that *)
(* got a status other than 200 from the user-info endpoint ends 400 having  *)
(* called no upsert; the step that ends it leaves the store as it was, and  *)
(* neither is redirected.                                                   *)
C7_UpstreamRefusalIs400 ==
    [][cb'.pc = "done" /\ cb.pc # "done"
         /\ (Refused(cb'.token_status) \/ Refused(cb'.user_status)) =>
        /\ cb'.status = 400 /\ cb'.location = <<>>
        /\ cb'.upserts = 0 /\ users' = users
        /\ Refused(cb'.token_status) => "me" \notin cb'.sent]_vars

C7_Witness ==
    cb.pc = "done" /\ cb.user_status = 401 /\ cb.token_status = 200

C9_ProcessedCountsList ==
    \A c \in DOMAIN cron : Finished(c) /\ cron[c].status = 200 =>
        /\ cron[c].processed = Len(cron[c].list)
        /\ \A j \in DOMAIN cron[c].list : cron[c].list[j].active

C9_Witness ==
    \E c \in DOMAIN cron :
        /\ Finished(c) /\ cron[c].processed = 2
        /\ \E j \in DOMAIN cron[c].list :
              /\ cron[c].list[j].next_post_at.t > cron[c].now.t
              /\ \E id \in Ids : Has(cron[c].log, <<"post_raised", id>>)

(* C10: a callback whose upsert raised or returned no data is answered 500, *)
(* never redirected, and has called the upsert once.                        *)
C10_StorageFailureIs500 ==
    cb.outcome \in {"nodata", "raise"} =>
        /\ cb.pc = "done" /\ cb.status = 500 /\ cb.location = <<>>
        /\ cb.upserts = 1

C10_Witness ==
    cb.pc = "done" /\ cb.outcome = "nodata" /\ cb.status = 500 /\ RowsOf(cb.uid) # {}

IsAttempt(e) == e[1] \in {"posted", "post_raised"}
Attempted(log, id) == \E k \in DOMAIN log : IsAttempt(log[k]) /\ log[k][2] = id
PosIn(list, id) == CHOOSE j \in DOMAIN list : list[j].x_id = id
Rest(r) == [x_id |-> r.x_id, username |-> r.username, active |-> r.active,
            access_token |-> r.access_token, refresh_token |-> r.refresh_token]

(* C11: no step of a scheduler invocation generates, publishes or writes    *)
(* for a row whose active is false, due or not: the rows of that id are the *)
(* same after the step and the invocation's calls do not name it.           *)
C11_InactiveUntouched ==
    [][\A c \in DOMAIN cron : cron'[c] # cron[c] =>
        \A r \in users : ~r.active =>
            /\ ~Mentions(cron'[c].log, r.x_id)
            /\ RowsIn(users', r.x_id) = RowsIn(users, r.x_id)]_vars

C11_Witness ==
    \E c \in DOMAIN cron : \E r \in users :
        /\ Finished(c) /\ cron[c].status = 200 /\ cron[c].log # <<>>
        /\ ~r.active /\ r.next_post_at.t <= cron[c].now.t

(* C13: no step deletes a row or sets active to false: a row that is active *)
(* before a step is there and active after it, and every id that has a row  *)
(* keeps one.                                                               *)
C13_ActiveStaysActive ==
    [][\A r \in users : \E q \in users' :
            q.x_id = r.x_id /\ (r.active => q.active)]_vars

C13_Witness ==
    \E c \in DOMAIN cron : \E r \in users :
        /\ Finished(c) /\ Has(cron[c].log, <<"update", r.x_id>>)
        /\ r.active /\ r.access_token # AccessToken(0)
        /\ \E q \in users : ~q.active

(* C14: the calls of one invocation are made user after user in the order   *)
(* of its list: a generation starts only after the update of the user       *)
(* before, who stands earlier in the list, and the publish call and the     *)
(* update of a user follow that user's generation directly.                 *)
C14_OneUserAtATime ==
    \A c \in DOMAIN cron :
        LET log == cron[c].log
            list == cron[c].list
        IN  \A k \in DOMAIN log :
              /\ \E j \in DOMAIN list : list[j].x_id = log[k][2]
              /\ log[k][1] = "generate" /\ k > 1 =>
                    /\ log[k - 1][1] = "update"
                    /\ PosIn(list, log[k - 1][2]) < PosIn(list, log[k][2])
              /\ log[k][1] = "generate" /\ k = Len(log) =>
                    cron[c].pc = "gen" /\ list[cron[c].i].x_id = log[k][2]
              /\ log[k][1] = "generate_raised" \/ IsAttempt(log[k]) =>
                    k > 1 /\ log[k - 1] = <<"generate", log[k][2]>>
              /\ log[k][1] = "update" =>
                    k > 1 /\ IsAttempt(log[k - 1]) /\ log[k - 1][2] = log[k][2]

C14_Witness ==
    \E c \in DOMAIN cron :
        /\ Finished(c) /\ cron[c].status = 200
        /\ \E j, k \in DOMAIN cron[c].list :
              /\ j < k
              /\ Has(cron[c].log, <<"update", cron[c].list[j].x_id>>)
              /\ Has(cron[c].log, <<"post_raised", cron[c].list[k].x_id>>)

(* C16: a step of a scheduler invocation changes no field of any row but    *)
(* next_post_at, and adds and removes no row: the tokens a callback stored  *)
(* after the invocation read its list are still there after its write.      *)
C16_WriteOnlyNextPostAt ==
    [][(\E c \in DOMAIN cron : cron'[c] # cron[c]) =>
        /\ {Rest(r) : r \in users'} = {Rest(r) : r \in users}
        /\ Cardinality(users') = Cardinality(users)]_vars

C16_Witness ==
    \E c \in DOMAIN cron : \E j \in DOMAIN cron[c].list : \E r \in users :
        /\ Has(cron[c].log, <<"update", r.x_id>>)
        /\ cron[c].list[j].x_id = r.x_id
        /\ cron[c].list[j].access_token # r.access_token
        /\ r.next_post_at = NewNext(cron[c].now)

PostsOf(id) == {p \in hist.posts : p.id = id}
SamePost(p, q) == p.id = q.id /\ p.due = q.due

(* C12: a user whose publish calls have all raised stays active and is      *)
(* retried: an invocation that has ended (no two invocations overlapping),  *)
(* whose time is 24 hours or more after that of every earlier invocation    *)
(* that attempted a post for the user, has made one publish attempt for the *)
(* user and the update that reschedules.                                    *)
C12_FailingUserRetriedDaily ==
    \A c \in DOMAIN cron : \A id \in Ids :
        LET earlier == {p \in PostsOf(id) : p.by # hist.by[c]}
        IN  /\ Finished(c) /\ ~hist.overlapped
            /\ earlier # {} /\ \A p \in PostsOf(id) : p.raised
            /\ \A p \in earlier : cron[c].now.t >= p.at + RescheduleHours
            => /\ Cardinality({p \in PostsOf(id) : p.by = hist.by[c]}) = 1
               /\ Has(cron[c].log, <<"update", id>>)
               /\ \E r \in users : r.x_id = id /\ r.active

(* C15: no two publish attempts are made for the same user and the same due *)
(* time, also when two invocations overlap.                                 *)
C15_OneAttemptPerDueTime ==
    \A p, q \in hist.posts : SamePost(p, q) => p = q

=============================================================================
